---- MODULE Spec2Model ----
(***************************************************************************)
(* stella_vslam::data::keyframe (src/src/stella_vslam/data/keyframe.cc):   *)
(* landmark slots, pose triple, erasure gating and the erasure protocol,   *)
(* run by concurrent threads.  The collaborators whose code is not part    *)
(* of the source tree at hand (landmark, graph_node, map_database,         *)
(* bow_database) follow the interface contracts of the specification.      *)
(***************************************************************************)
EXTENDS Integers, Sequences, FiniteSets, TLC

(* ------------------------------ bounds --------------------------------- *)
\* keyframes 0..NumKeyfrms-1; keyframe 0 is map_db->origin_keyfrm_
NumKeyfrms == 4
\* frm_obs_.num_keypts_: slots 1..NumKeypts of every keyframe
NumKeypts == 2
\* landmarks 1..NumLandmarks
NumLandmarks == 2
\* threads 1..NumThreads
NumThreads == 2
\* operations started in one behaviour
MaxOps == 3
\* translations of the 1-D rigid transforms are in -MaxTrans..MaxTrans
MaxTrans == 1
\* the keyframe whose median depth is computed has DepthKeypts slots, which hold
\* landmarks 1..DepthLandmarks
DepthKeypts == 4
DepthLandmarks == 4

KF == 0 .. (NumKeyfrms - 1)
origin_keyfrm == 0
Slots == 1 .. NumKeypts
LM == 1 .. NumLandmarks
Threads == 1 .. NumThreads
\* nullptr (landmark) / no keyframe / no lock owner
Null == 0
NoKF == -1
Free == 0

VARIABLES
    landmarks,          \* keyframe::landmarks_        [KF -> [Slots -> LM \cup {Null}]]
    cannot_be_erased,   \* keyframe::cannot_be_erased_ [KF -> BOOLEAN]
    will_be_erased,     \* keyframe::will_be_erased_   [KF -> BOOLEAN]
    pose_cw,            \* keyframe::pose_cw_          [KF -> Pose]
    pose_wc,            \* keyframe::pose_wc_          [KF -> Pose]
    trans_wc,           \* keyframe::trans_wc_         [KF -> Int]
    mtx_observations,   \* keyframe::mtx_observations_ [KF -> Threads \cup {Free}]
    mtx_pose,           \* keyframe::mtx_pose_         [KF -> Threads \cup {Free}]
    connections,        \* graph_node: covisibility weights [KF -> [KF -> Nat]]
    spanning_parent,    \* graph_node: spanning-tree parent [KF -> KF \cup {NoKF}]
    spanning_children,  \* graph_node: spanning-tree children [KF -> SUBSET KF]
    loop_edges,         \* graph_node: loop edges [KF -> SUBSET KF]
    observations,       \* landmark: observer set [LM -> [KF -> Slots \cup {Null}]]
    lm_will_be_erased,  \* landmark: erasure flag [LM -> BOOLEAN]
    map_keyfrms,        \* map_database: registered keyframes
    ref_keyfrm,         \* map_database: reference keyframe of the frame statistics
    bow_keyfrms,        \* bow_database: indexed keyframes
    pc,                 \* per thread: position in the running operation
    cur,                \* per thread: the running (or last) operation and its locals
    calls,              \* per thread: collaborator calls made by the running (or last) operation
    nops,               \* operations started so far
    keyfrms,            \* the keyframes constructed (make_keyframe); operations run on these
    written,            \* per keyframe: the poses set_pose_cw has been called with so far
    erased_with_index   \* per keyframe: the slots cleared by erase_landmark_with_index and
                        \* not written by add_landmark since

kfvars == <<landmarks, cannot_be_erased, will_be_erased>>
posevars == <<pose_cw, pose_wc, trans_wc>>
lockvars == <<mtx_observations, mtx_pose>>
graphvars == <<connections, spanning_parent, spanning_children, loop_edges>>
lmvars == <<observations, lm_will_be_erased>>
dbvars == <<map_keyfrms, ref_keyfrm, bow_keyfrms>>
thvars == <<pc, cur, calls, nops>>
histvars == <<keyfrms, written, erased_with_index>>
vars == <<kfvars, posevars, lockvars, graphvars, lmvars, dbvars, thvars, histvars>>

(* ------------------------------ pose algebra --------------------------- *)
\* A rigid transform restricted to the optical axis: rot is an orthonormal
\* 1x1 block (+1 / -1), trans the translation.
Poses == [rot : {1, -1}, trans : (-MaxTrans) .. MaxTrans]

\* rot_wc = rot_cw.transpose()
Transpose(rot) == rot

\* trans_wc_ = -rot_wc * trans_cw
TransWc(p) == (0 - Transpose(p.rot)) * p.trans

\* pose_wc_: Identity with the rotation block rot_wc and the translation block trans_wc_
PoseWc(p) == [rot |-> Transpose(p.rot), trans |-> TransWc(p)]

(* ------------------------------ thread locals -------------------------- *)
\* op: operation name; k: keyframe; i: slot index / loop index; lm: landmark argument;
\* b: a flag read by the operation; p: a pose argument or snapshot; r: kind of result;
\* v: a numeric result; s: a set of keyframes kept by the operation
NoPose == [rot |-> 1, trans |-> 0]
NoOp == [op |-> "none", k |-> 0, i |-> 0, lm |-> Null, b |-> FALSE, p |-> NoPose, r |-> "none",
         v |-> 0, s |-> {}]

Call(f, a, s) == [f |-> f, a |-> a, s |-> s]

\* Threads are interchangeable: an operation is started by the first idle thread.
Begin(t, rec, lbl) ==
    /\ pc[t] = "idle"
    /\ \A u \in Threads : u < t => pc[u] # "idle"
    /\ nops < MaxOps
    /\ nops' = nops + 1
    /\ cur' = [cur EXCEPT ![t] = rec]
    /\ calls' = [calls EXCEPT ![t] = <<>>]
    /\ pc' = [pc EXCEPT ![t] = lbl]

\* an operation that is a single atomic access
Atomic(t) ==
    /\ pc[t] = "idle"
    /\ \A u \in Threads : u < t => pc[u] # "idle"
    /\ nops < MaxOps
    /\ nops' = nops + 1
    /\ UNCHANGED <<pc, cur, calls>>

Goto(t, lbl) == pc' = [pc EXCEPT ![t] = lbl]

\* the operation returns without a result that is looked at
Finish(t) ==
    /\ pc' = [pc EXCEPT ![t] = "idle"]
    /\ cur' = [cur EXCEPT ![t] = NoOp]
    /\ calls' = [calls EXCEPT ![t] = <<>>]

\* the caller takes the result of an operation that has reached its return statement
return(t) ==
    /\ pc[t] = "return"
    /\ Finish(t)
    /\ UNCHANGED <<kfvars, posevars, lockvars, graphvars, lmvars, dbvars, nops, histvars>>

(* ------------------------------ landmark (collaborator) ---------------- *)
\* record_observation(keyframe, slot)
LmAddObservation(obs, l, k, idx) == [obs EXCEPT ![l][k] = idx]

\* slot_for(keyframe): the recorded slot, negative when there is none
LmGetIndexInKeyframe(obs, l, k) == IF obs[l][k] = Null THEN -1 ELSE obs[l][k]

LmObservers(obs, l) == {k \in KF : obs[l][k] # Null}

\* remove_observation(map_registry, keyframe): removes the keyframe from the observer
\* set; a landmark left without any observer becomes being-erased
LmEraseObservation(obs, l, k) == [obs EXCEPT ![l][k] = Null]

LmErasedAfter(obs, wbe, l, k) ==
    IF obs[l][k] # Null /\ LmObservers(obs, l) = {k} THEN TRUE ELSE wbe[l]

\* position_in_world(): coordinate of the landmark on the optical axis
LmPosInWorld(l) == l

(* ------------------------------ slot mutation -------------------------- *)
add_landmark_begin(t, k, l, idx) ==
    /\ Begin(t, [NoOp EXCEPT !.op = "add_landmark", !.k = k, !.lm = l, !.i = idx], "add_landmark")
    /\ UNCHANGED <<kfvars, posevars, lockvars, graphvars, lmvars, dbvars, histvars>>

\* mutant: an occupied slot is left as it is
add_landmark_if_empty(t) ==
    /\ pc[t] = "add_landmark"
    /\ mtx_observations[cur[t].k] = Free
    /\ landmarks' = IF landmarks[cur[t].k][cur[t].i] = Null
                    THEN [landmarks EXCEPT ![cur[t].k][cur[t].i] = cur[t].lm]
                    ELSE landmarks
    /\ erased_with_index' = [erased_with_index EXCEPT ![cur[t].k] = @ \ {cur[t].i}]
    /\ Finish(t)
    /\ UNCHANGED <<cannot_be_erased, will_be_erased, posevars, lockvars, graphvars, lmvars,
                   dbvars, nops, keyfrms, written>>

add_landmark(t) ==
    /\ pc[t] = "add_landmark"
    /\ mtx_observations[cur[t].k] = Free
    /\ landmarks' = [landmarks EXCEPT ![cur[t].k][cur[t].i] = cur[t].lm]
    /\ erased_with_index' = [erased_with_index EXCEPT ![cur[t].k] = @ \ {cur[t].i}]
    /\ Finish(t)
    /\ UNCHANGED <<cannot_be_erased, will_be_erased, posevars, lockvars, graphvars, lmvars,
                   dbvars, nops, keyfrms, written>>

erase_landmark_with_index_begin(t, k, idx) ==
    /\ Begin(t, [NoOp EXCEPT !.op = "erase_landmark_with_index", !.k = k, !.i = idx],
             "erase_landmark_with_index")
    /\ UNCHANGED <<kfvars, posevars, lockvars, graphvars, lmvars, dbvars, histvars>>

\* mutant: the slot after idx is cleared
erase_landmark_with_index_off_by_one(t) ==
    /\ pc[t] = "erase_landmark_with_index"
    /\ mtx_observations[cur[t].k] = Free
    /\ landmarks' = [landmarks EXCEPT ![cur[t].k][(cur[t].i % NumKeypts) + 1] = Null]
    /\ erased_with_index' = [erased_with_index EXCEPT ![cur[t].k] = @ \cup {cur[t].i}]
    /\ Finish(t)
    /\ UNCHANGED <<cannot_be_erased, will_be_erased, posevars, lockvars, graphvars, lmvars,
                   dbvars, nops, keyfrms, written>>

\* mutant: the element is removed from the vector instead of being set to nullptr
erase_landmark_with_index_shrinking(t) ==
    /\ pc[t] = "erase_landmark_with_index"
    /\ mtx_observations[cur[t].k] = Free
    /\ landmarks' = [landmarks EXCEPT ![cur[t].k] =
                        [j \in 1 .. (NumKeypts - 1) |-> IF j < cur[t].i THEN @[j] ELSE @[j + 1]]]
    /\ erased_with_index' = [erased_with_index EXCEPT ![cur[t].k] = @ \cup {cur[t].i}]
    /\ Finish(t)
    /\ UNCHANGED <<cannot_be_erased, will_be_erased, posevars, lockvars, graphvars, lmvars,
                   dbvars, nops, keyfrms, written>>

erase_landmark_with_index(t) ==
    /\ pc[t] = "erase_landmark_with_index"
    /\ mtx_observations[cur[t].k] = Free
    /\ landmarks' = [landmarks EXCEPT ![cur[t].k][cur[t].i] = Null]
    /\ erased_with_index' = [erased_with_index EXCEPT ![cur[t].k] = @ \cup {cur[t].i}]
    /\ Finish(t)
    /\ UNCHANGED <<cannot_be_erased, will_be_erased, posevars, lockvars, graphvars, lmvars,
                   dbvars, nops, keyfrms, written>>

erase_landmark_begin(t, k, l) ==
    /\ Begin(t, [NoOp EXCEPT !.op = "erase_landmark", !.k = k, !.lm = l], "erase_landmark_lock")
    /\ UNCHANGED <<kfvars, posevars, lockvars, graphvars, lmvars, dbvars, histvars>>

erase_landmark_lock(t) ==
    /\ pc[t] = "erase_landmark_lock"
    /\ mtx_observations[cur[t].k] = Free
    /\ mtx_observations' = [mtx_observations EXCEPT ![cur[t].k] = t]
    /\ Goto(t, "erase_landmark")
    /\ UNCHANGED <<kfvars, posevars, mtx_pose, graphvars, lmvars, dbvars, cur, calls, nops,
                   histvars>>

\* mutant: the slot is cleared only when it holds lm
erase_landmark_checked(t) ==
    /\ pc[t] = "erase_landmark"
    /\ LET k == cur[t].k
           idx == LmGetIndexInKeyframe(observations, cur[t].lm, k)
       IN /\ landmarks' = IF 0 <= idx /\ landmarks[k][idx] = cur[t].lm
                          THEN [landmarks EXCEPT ![k][idx] = Null] ELSE landmarks
          /\ mtx_observations' = [mtx_observations EXCEPT ![k] = Free]
          /\ cur' = [cur EXCEPT ![t].i = idx,
                                ![t].v = IF 0 <= idx THEN landmarks[k][idx] ELSE Null,
                                ![t].r = IF 0 <= idx THEN "cleared" ELSE "unchanged"]
    /\ Goto(t, "return")
    /\ UNCHANGED <<cannot_be_erased, will_be_erased, posevars, mtx_pose, graphvars, lmvars,
                   dbvars, calls, nops, histvars>>

\* lm->get_index_in_keyframe() is called with mtx_observations_ held; i keeps the index
\* the landmark reported and v what the slot cleared was holding
erase_landmark(t) ==
    /\ pc[t] = "erase_landmark"
    /\ LET k == cur[t].k
           idx == LmGetIndexInKeyframe(observations, cur[t].lm, k)
       IN /\ landmarks' = IF 0 <= idx THEN [landmarks EXCEPT ![k][idx] = Null] ELSE landmarks
          /\ mtx_observations' = [mtx_observations EXCEPT ![k] = Free]
          /\ cur' = [cur EXCEPT ![t].i = idx,
                                ![t].v = IF 0 <= idx THEN landmarks[k][idx] ELSE Null,
                                ![t].r = IF 0 <= idx THEN "cleared" ELSE "unchanged"]
    /\ Goto(t, "return")
    /\ UNCHANGED <<cannot_be_erased, will_be_erased, posevars, mtx_pose, graphvars, lmvars,
                   dbvars, calls, nops, histvars>>

get_landmark_begin(t, k, idx) ==
    /\ Begin(t, [NoOp EXCEPT !.op = "get_landmark", !.k = k, !.i = idx], "get_landmark")
    /\ UNCHANGED <<kfvars, posevars, lockvars, graphvars, lmvars, dbvars, histvars>>

\* b keeps whether the slot read is one that erase_landmark_with_index cleared and
\* add_landmark has not written since
get_landmark(t) ==
    /\ pc[t] = "get_landmark"
    /\ mtx_observations[cur[t].k] = Free
    /\ cur' = [cur EXCEPT ![t].lm = landmarks[cur[t].k][cur[t].i], ![t].r = "value",
                          ![t].b = cur[t].i \in erased_with_index[cur[t].k]]
    /\ Goto(t, "return")
    /\ UNCHANGED <<kfvars, posevars, lockvars, graphvars, lmvars, dbvars, calls, nops, histvars>>

(* ------------------------------ update_landmarks ----------------------- *)
update_landmarks_begin(t, k) ==
    /\ Begin(t, [NoOp EXCEPT !.op = "update_landmarks", !.k = k], "update_landmarks_lock")
    /\ UNCHANGED <<kfvars, posevars, lockvars, graphvars, lmvars, dbvars, histvars>>

update_landmarks_lock(t) ==
    /\ pc[t] = "update_landmarks_lock"
    /\ mtx_observations[cur[t].k] = Free
    /\ mtx_observations' = [mtx_observations EXCEPT ![cur[t].k] = t]
    /\ cur' = [cur EXCEPT ![t].i = 1]
    /\ Goto(t, "update_landmarks_loop")
    /\ UNCHANGED <<kfvars, posevars, mtx_pose, graphvars, lmvars, dbvars, calls, nops, histvars>>

\* mutant: lm->will_be_erased() is not asked
update_landmarks_slot_unchecked(t) ==
    /\ pc[t] = "update_landmarks_loop"
    /\ cur[t].i <= NumKeypts
    /\ LET k == cur[t].k
           idx == cur[t].i
           lm == landmarks[k][idx]
       IN IF lm = Null
          THEN UNCHANGED <<observations, calls>>
          ELSE /\ observations' = LmAddObservation(observations, lm, k, idx)
               /\ calls' = [calls EXCEPT ![t] = @ \o
                     << Call("add_observation", lm, idx),
                        Call("update_mean_normal_and_obs_scale_variance", lm, idx),
                        Call("compute_descriptor", lm, idx) >>]
    /\ cur' = [cur EXCEPT ![t].i = @ + 1]
    /\ UNCHANGED <<kfvars, posevars, lockvars, graphvars, lm_will_be_erased, dbvars, pc, nops,
                   histvars>>

\* one iteration of the loop over landmarks_
update_landmarks_slot(t) ==
    /\ pc[t] = "update_landmarks_loop"
    /\ cur[t].i <= NumKeypts
    /\ LET k == cur[t].k
           idx == cur[t].i
           lm == landmarks[k][idx]
       IN IF lm = Null \/ lm_will_be_erased[lm]
          THEN UNCHANGED <<observations, calls>>
          ELSE /\ observations' = LmAddObservation(observations, lm, k, idx)
               /\ calls' = [calls EXCEPT ![t] = @ \o
                     << Call("add_observation", lm, idx),
                        Call("update_mean_normal_and_obs_scale_variance", lm, idx),
                        Call("compute_descriptor", lm, idx) >>]
    /\ cur' = [cur EXCEPT ![t].i = @ + 1]
    /\ UNCHANGED <<kfvars, posevars, lockvars, graphvars, lm_will_be_erased, dbvars, pc, nops,
                   histvars>>

update_landmarks_unlock(t) ==
    /\ pc[t] = "update_landmarks_loop"
    /\ cur[t].i > NumKeypts
    /\ mtx_observations' = [mtx_observations EXCEPT ![cur[t].k] = Free]
    /\ Finish(t)
    /\ UNCHANGED <<kfvars, posevars, mtx_pose, graphvars, lmvars, dbvars, nops, histvars>>

(* ------------------------------ graph node (collaborator) -------------- *)
\* has_loop_edge(): non-emptiness of the loop-edge set
has_loop_edge(k) == loop_edges[k] # {}

\* add_loop_edge(other): records the relation on both nodes
add_loop_edge(t, k, j) ==
    /\ k # j
    /\ Atomic(t)
    /\ loop_edges' = [loop_edges EXCEPT ![k] = @ \cup {j}, ![j] = @ \cup {k}]
    /\ UNCHANGED <<kfvars, posevars, lockvars, connections, spanning_parent, spanning_children,
                   lmvars, dbvars, histvars>>

\* erase_all_connections(): the reciprocal edge is removed from every neighbour, then
\* the node's own edge set is cleared
EraseAllConnections(conn, k) ==
    [a \in KF |-> [b \in KF |-> IF a = k \/ b = k THEN 0 ELSE conn[a][b]]]

\* n reaches the tree root along parent links without passing through `avoid`
RECURSIVE PathToRoot(_, _, _, _)
PathToRoot(par, n, avoid, fuel) ==
    IF n = origin_keyfrm THEN TRUE
    ELSE IF n = NoKF \/ n = avoid \/ fuel = 0 THEN FALSE
    ELSE PathToRoot(par, par[n], avoid, fuel - 1)

\* the neighbours of child c that may become its parent when k is erased
NewParentCandidates(conn, par, c, k) ==
    {n \in KF : /\ n # c /\ n # k
                /\ conn[c][n] > 0
                /\ ~will_be_erased[n]
                /\ PathToRoot(par, n, k, NumKeyfrms)}

BestCandidates(conn, par, c, k) ==
    LET cands == NewParentCandidates(conn, par, c, k)
    IN IF cands = {} THEN {origin_keyfrm}
       ELSE {n \in cands : \A m \in cands : conn[c][m] <= conn[c][n]}

\* recover_spanning_connections(): every direct child gets a new parent (the children
\* are taken in the order `order`, `pick` resolves ties between equal weights), and the
\* node is detached from its own parent
RECURSIVE RecoverSpanning(_, _, _, _, _)
RecoverSpanning(conn, st, k, order, pick) ==
    IF order = <<>> THEN
        LET p == st.parent[k]
        IN [parent |-> st.parent,
            children |-> [st.children EXCEPT ![k] = {},
                                             ![IF p = NoKF THEN k ELSE p] = @ \ {k}]]
    ELSE
        LET c == Head(order)
            best == BestCandidates(conn, st.parent, c, k)
            np == IF pick \in best THEN pick ELSE CHOOSE n \in best : TRUE
            st2 == [parent |-> [st.parent EXCEPT ![c] = np],
                    children |-> [st.children EXCEPT ![k] = @ \ {c}, ![np] = @ \cup {c}]]
        IN RecoverSpanning(conn, st2, k, Tail(order), pick)

\* the orders in which a set of keyframes can be taken
Orders(S) ==
    {o \in [1 .. Cardinality(S) -> S] : \A a, b \in 1 .. Cardinality(S) : a # b => o[a] # o[b]}

(* ------------------------------ erasure gating ------------------------- *)
set_not_to_be_erased(t, k) ==
    /\ Atomic(t)
    /\ cannot_be_erased' = [cannot_be_erased EXCEPT ![k] = TRUE]
    /\ UNCHANGED <<landmarks, will_be_erased, posevars, lockvars, graphvars, lmvars, dbvars,
                   histvars>>

\* the call of graph_node_->has_loop_edge()
set_to_be_erased_begin(t, k) ==
    /\ Begin(t, [NoOp EXCEPT !.op = "set_to_be_erased", !.k = k, !.b = has_loop_edge(k)],
             "set_to_be_erased")
    /\ UNCHANGED <<kfvars, posevars, lockvars, graphvars, lmvars, dbvars, histvars>>

\* mutant: the wrong flag is cleared
set_to_be_erased_wrong_flag(t) ==
    /\ pc[t] = "set_to_be_erased"
    /\ will_be_erased' = IF ~cur[t].b THEN [will_be_erased EXCEPT ![cur[t].k] = FALSE]
                         ELSE will_be_erased
    /\ cur' = [cur EXCEPT ![t].r = IF ~cur[t].b THEN "cleared" ELSE "kept"]
    /\ Goto(t, "return")
    /\ UNCHANGED <<landmarks, cannot_be_erased, posevars, lockvars, graphvars, lmvars, dbvars,
                   calls, nops, histvars>>

\* mutant: the flag is cleared whether or not there is a loop edge
set_to_be_erased_unconditional(t) ==
    /\ pc[t] = "set_to_be_erased"
    /\ cannot_be_erased' = [cannot_be_erased EXCEPT ![cur[t].k] = FALSE]
    /\ cur' = [cur EXCEPT ![t].r = IF ~cur[t].b THEN "cleared" ELSE "kept"]
    /\ Goto(t, "return")
    /\ UNCHANGED <<landmarks, will_be_erased, posevars, lockvars, graphvars, lmvars, dbvars,
                   calls, nops, histvars>>

set_to_be_erased(t) ==
    /\ pc[t] = "set_to_be_erased"
    /\ cannot_be_erased' = IF ~cur[t].b THEN [cannot_be_erased EXCEPT ![cur[t].k] = FALSE]
                           ELSE cannot_be_erased
    /\ cur' = [cur EXCEPT ![t].r = IF ~cur[t].b THEN "cleared" ELSE "kept"]
    /\ Goto(t, "return")
    /\ UNCHANGED <<landmarks, will_be_erased, posevars, lockvars, graphvars, lmvars, dbvars,
                   calls, nops, histvars>>

(* ------------------------------ prepare_for_erasing -------------------- *)
PfeLabels == {"pfe_raise", "pfe_lock", "pfe_loop", "pfe_erase_all_connections",
              "pfe_recover_spanning_connections", "pfe_replace_reference_keyframe",
              "pfe_map_erase_keyframe", "pfe_bow_erase_keyframe"}

\* mutant: the check of cannot_be_erased_ is left out
prepare_for_erasing_begin_unchecked(t, k) ==
    /\ Begin(t, [NoOp EXCEPT !.op = "prepare_for_erasing", !.k = k, !.b = will_be_erased[k],
                             !.r = IF k = origin_keyfrm THEN "returned" ELSE "erasing"],
             IF k = origin_keyfrm THEN "return" ELSE "pfe_raise")
    /\ UNCHANGED <<kfvars, posevars, lockvars, graphvars, lmvars, dbvars, histvars>>

\* entry and the two early returns; b keeps will_be_erased_ as it was at the invocation
prepare_for_erasing_begin(t, k) ==
    /\ Begin(t, [NoOp EXCEPT !.op = "prepare_for_erasing", !.k = k, !.b = will_be_erased[k],
                             !.r = IF k = origin_keyfrm \/ cannot_be_erased[k]
                                   THEN "returned" ELSE "erasing"],
             IF k = origin_keyfrm \/ cannot_be_erased[k] THEN "return" ELSE "pfe_raise")
    /\ UNCHANGED <<kfvars, posevars, lockvars, graphvars, lmvars, dbvars, histvars>>

\* 1. raise the flag
pfe_raise(t) ==
    /\ pc[t] = "pfe_raise"
    /\ will_be_erased' = [will_be_erased EXCEPT ![cur[t].k] = TRUE]
    /\ Goto(t, "pfe_lock")
    /\ UNCHANGED <<landmarks, cannot_be_erased, posevars, lockvars, graphvars, lmvars, dbvars,
                   cur, calls, nops, histvars>>

\* 2. remove associations between keypoints and landmarks
pfe_lock(t) ==
    /\ pc[t] = "pfe_lock"
    /\ mtx_observations[cur[t].k] = Free
    /\ mtx_observations' = [mtx_observations EXCEPT ![cur[t].k] = t]
    /\ cur' = [cur EXCEPT ![t].i = 1]
    /\ Goto(t, "pfe_loop")
    /\ UNCHANGED <<kfvars, posevars, mtx_pose, graphvars, lmvars, dbvars, calls, nops, histvars>>

\* one iteration of the loop over landmarks_
pfe_slot(t) ==
    /\ pc[t] = "pfe_loop"
    /\ cur[t].i <= NumKeypts
    /\ LET k == cur[t].k
           lm == landmarks[k][cur[t].i]
       IN IF lm = Null \/ lm_will_be_erased[lm]
          THEN UNCHANGED <<observations, lm_will_be_erased, calls>>
          ELSE LET erased == LmErasedAfter(observations, lm_will_be_erased, lm, k)
               IN /\ observations' = LmEraseObservation(observations, lm, k)
                  /\ lm_will_be_erased' = [lm_will_be_erased EXCEPT ![lm] = erased]
                  /\ calls' = [calls EXCEPT ![t] = @ \o
                        (<< Call("erase_observation", lm, cur[t].i) >> \o
                         IF erased THEN <<>>
                         ELSE << Call("compute_descriptor", lm, cur[t].i),
                                 Call("update_mean_normal_and_obs_scale_variance", lm, cur[t].i) >>)]
    /\ cur' = [cur EXCEPT ![t].i = @ + 1]
    /\ UNCHANGED <<kfvars, posevars, lockvars, graphvars, dbvars, pc, nops, histvars>>

\* mutant: the loop over landmarks_ is left at its first iteration
pfe_unlock_early(t) ==
    /\ pc[t] = "pfe_loop"
    /\ cur[t].i > 1
    /\ mtx_observations' = [mtx_observations EXCEPT ![cur[t].k] = Free]
    /\ Goto(t, "pfe_erase_all_connections")
    /\ UNCHANGED <<kfvars, posevars, mtx_pose, graphvars, lmvars, dbvars, cur, calls, nops,
                   histvars>>

pfe_unlock(t) ==
    /\ pc[t] = "pfe_loop"
    /\ cur[t].i > NumKeypts
    /\ mtx_observations' = [mtx_observations EXCEPT ![cur[t].k] = Free]
    /\ Goto(t, "pfe_erase_all_connections")
    /\ UNCHANGED <<kfvars, posevars, mtx_pose, graphvars, lmvars, dbvars, cur, calls, nops,
                   histvars>>

\* 3. recover covisibility graph and spanning tree
pfe_erase_all_connections(t) ==
    /\ pc[t] = "pfe_erase_all_connections"
    /\ connections' = EraseAllConnections(connections, cur[t].k)
    /\ calls' = [calls EXCEPT ![t] = Append(@, Call("erase_all_connections", 0, 0))]
    /\ Goto(t, "pfe_recover_spanning_connections")
    /\ UNCHANGED <<kfvars, posevars, lockvars, spanning_parent, spanning_children, loop_edges,
                   lmvars, dbvars, cur, nops, histvars>>

\* s keeps the spanning children as they were before the repair
\* mutant: recover_spanning_connections() is not called
pfe_recover_spanning_connections_skipped(t) ==
    /\ pc[t] = "pfe_recover_spanning_connections"
    /\ calls' = [calls EXCEPT ![t] = Append(@, Call("recover_spanning_connections", 0, 0))]
    /\ cur' = [cur EXCEPT ![t].s = spanning_children[cur[t].k]]
    /\ Goto(t, "pfe_replace_reference_keyframe")
    /\ UNCHANGED <<kfvars, posevars, lockvars, graphvars, lmvars, dbvars, nops, histvars>>

pfe_recover_spanning_connections(t) ==
    /\ pc[t] = "pfe_recover_spanning_connections"
    /\ \E order \in Orders(spanning_children[cur[t].k]), pick \in KF :
          LET st == RecoverSpanning(connections,
                                    [parent |-> spanning_parent, children |-> spanning_children],
                                    cur[t].k, order, pick)
          IN /\ spanning_parent' = st.parent
             /\ spanning_children' = st.children
    /\ calls' = [calls EXCEPT ![t] = Append(@, Call("recover_spanning_connections", 0, 0))]
    /\ cur' = [cur EXCEPT ![t].s = spanning_children[cur[t].k]]
    /\ Goto(t, "pfe_replace_reference_keyframe")
    /\ UNCHANGED <<kfvars, posevars, lockvars, connections, loop_edges, lmvars, dbvars, nops,
                   histvars>>

\* 3. update frame statistics
pfe_replace_reference_keyframe(t) ==
    /\ pc[t] = "pfe_replace_reference_keyframe"
    /\ LET new == spanning_parent[cur[t].k]
       IN /\ ref_keyfrm' = IF ref_keyfrm = cur[t].k THEN new ELSE ref_keyfrm
          /\ calls' = [calls EXCEPT ![t] = Append(@, Call("replace_reference_keyframe", new, 0))]
    /\ Goto(t, "pfe_map_erase_keyframe")
    /\ UNCHANGED <<kfvars, posevars, lockvars, graphvars, lmvars, map_keyfrms, bow_keyfrms,
                   cur, nops, histvars>>

\* 4. remove myself from the databases
pfe_map_erase_keyframe(t) ==
    /\ pc[t] = "pfe_map_erase_keyframe"
    /\ map_keyfrms' = map_keyfrms \ {cur[t].k}
    /\ calls' = [calls EXCEPT ![t] = Append(@, Call("map_erase_keyframe", 0, 0))]
    /\ Goto(t, "pfe_bow_erase_keyframe")
    /\ UNCHANGED <<kfvars, posevars, lockvars, graphvars, lmvars, ref_keyfrm, bow_keyfrms,
                   cur, nops, histvars>>

pfe_bow_erase_keyframe(t) ==
    /\ pc[t] = "pfe_bow_erase_keyframe"
    /\ bow_keyfrms' = bow_keyfrms \ {cur[t].k}
    /\ calls' = [calls EXCEPT ![t] = Append(@, Call("bow_erase_keyframe", 0, 0))]
    /\ cur' = [cur EXCEPT ![t].r = "erased"]
    /\ Goto(t, "return")
    /\ UNCHANGED <<kfvars, posevars, lockvars, graphvars, lmvars, map_keyfrms, ref_keyfrm, nops,
                   histvars>>

(* ------------------------------ pose ----------------------------------- *)
set_pose_cw_begin(t, k, p) ==
    /\ Begin(t, [NoOp EXCEPT !.op = "set_pose_cw", !.k = k, !.p = p], "set_pose_cw_lock")
    /\ written' = [written EXCEPT ![k] = @ \cup {p}]
    /\ UNCHANGED <<kfvars, posevars, lockvars, graphvars, lmvars, dbvars, keyfrms,
                   erased_with_index>>

set_pose_cw_lock(t) ==
    /\ pc[t] = "set_pose_cw_lock"
    /\ mtx_pose[cur[t].k] = Free
    /\ mtx_pose' = [mtx_pose EXCEPT ![cur[t].k] = t]
    /\ Goto(t, "set_pose_cw_pose_cw")
    /\ UNCHANGED <<kfvars, posevars, mtx_observations, graphvars, lmvars, dbvars, cur, calls,
                   nops, histvars>>

\* pose_cw_ = pose_cw
set_pose_cw_pose_cw(t) ==
    /\ pc[t] = "set_pose_cw_pose_cw"
    /\ pose_cw' = [pose_cw EXCEPT ![cur[t].k] = cur[t].p]
    /\ Goto(t, "set_pose_cw_trans_wc")
    /\ UNCHANGED <<kfvars, pose_wc, trans_wc, lockvars, graphvars, lmvars, dbvars, cur, calls,
                   nops, histvars>>

\* trans_wc_ = -rot_wc * trans_cw
set_pose_cw_trans_wc(t) ==
    /\ pc[t] = "set_pose_cw_trans_wc"
    /\ trans_wc' = [trans_wc EXCEPT ![cur[t].k] = TransWc(pose_cw[cur[t].k])]
    /\ Goto(t, "set_pose_cw_pose_wc")
    /\ UNCHANGED <<kfvars, pose_cw, pose_wc, lockvars, graphvars, lmvars, dbvars, cur, calls,
                   nops, histvars>>

\* pose_wc_ = Identity with the blocks rot_wc and trans_wc_; the lock guard is released
set_pose_cw_pose_wc(t) ==
    /\ pc[t] = "set_pose_cw_pose_wc"
    /\ LET k == cur[t].k
       IN /\ pose_wc' = [pose_wc EXCEPT ![k] = [rot |-> Transpose(pose_cw[k].rot),
                                                 trans |-> trans_wc[k]]]
          /\ mtx_pose' = [mtx_pose EXCEPT ![k] = Free]
    /\ Finish(t)
    /\ UNCHANGED <<kfvars, pose_cw, trans_wc, mtx_observations, graphvars, lmvars, dbvars,
                   nops, histvars>>

PoseGetters == {"get_pose_cw", "get_pose_wc", "get_trans_wc", "get_rot_cw", "get_trans_cw"}

get_pose_begin(t, k, g) ==
    /\ Begin(t, [NoOp EXCEPT !.op = g, !.k = k], "get_pose")
    /\ UNCHANGED <<kfvars, posevars, lockvars, graphvars, lmvars, dbvars, histvars>>

\* lock_guard on mtx_pose_ and the copy of the field returned
get_pose(t) ==
    /\ pc[t] = "get_pose"
    /\ mtx_pose[cur[t].k] = Free
    /\ LET k == cur[t].k
           g == cur[t].op
       IN cur' = [cur EXCEPT ![t].r = "value",
                             ![t].p = IF g = "get_pose_wc" THEN pose_wc[k] ELSE pose_cw[k],
                             ![t].v = CASE g = "get_trans_wc" -> trans_wc[k]
                                        [] g = "get_rot_cw" -> pose_cw[k].rot
                                        [] g = "get_trans_cw" -> pose_cw[k].trans
                                        [] OTHER -> 0]
    /\ Goto(t, "return")
    /\ UNCHANGED <<kfvars, posevars, lockvars, graphvars, lmvars, dbvars, calls, nops, histvars>>

triangulate_stereo_begin(t, k, idx) ==
    /\ Begin(t, [NoOp EXCEPT !.op = "triangulate_stereo", !.k = k, !.i = idx],
             "triangulate_stereo")
    /\ UNCHANGED <<kfvars, posevars, lockvars, graphvars, lmvars, dbvars, histvars>>

\* pose_wc = pose_wc_ under mtx_pose_; the triangulation itself works on the copy
triangulate_stereo(t) ==
    /\ pc[t] = "triangulate_stereo"
    /\ mtx_pose[cur[t].k] = Free
    /\ cur' = [cur EXCEPT ![t].r = "value", ![t].p = pose_wc[cur[t].k]]
    /\ Goto(t, "return")
    /\ UNCHANGED <<kfvars, posevars, lockvars, graphvars, lmvars, dbvars, calls, nops, histvars>>

(* ------------------------------ compute_median_depth ------------------- *)
Abs(x) == IF x < 0 THEN 0 - x ELSE x

\* pos_c_z = rot_cw_z_row.dot(pos_w) + trans_cw_z, for every slot that is not nullptr
RECURSIVE Depths(_, _, _, _)
Depths(lms, pose, abs, i) ==
    IF i > Len(lms) THEN <<>>
    ELSE LET pos_c_z == pose.rot * LmPosInWorld(lms[i]) + pose.trans
         IN (IF lms[i] = Null THEN <<>> ELSE << IF abs THEN Abs(pos_c_z) ELSE pos_c_z >>)
            \o Depths(lms, pose, abs, i + 1)

RECURSIVE Insert(_, _)
Insert(x, sorted) ==
    IF sorted = <<>> THEN <<x>>
    ELSE IF x <= Head(sorted) THEN <<x>> \o sorted
    ELSE <<Head(sorted)>> \o Insert(x, Tail(sorted))

\* std::sort(depths.begin(), depths.end())
RECURSIVE Sort(_)
Sort(seq) == IF seq = <<>> THEN <<>> ELSE Insert(Head(seq), Sort(Tail(seq)))

\* mutant: the upper median, depths.at(depths.size() / 2)
MedianDepthUpper(lms, pose, abs) ==
    LET depths == Sort(Depths(lms, pose, abs, 1))
    IN IF Len(depths) = 0 THEN [r |-> "fatal", v |-> 0, n |-> 0]
       ELSE [r |-> "value", v |-> depths[(Len(depths) \div 2) + 1], n |-> Len(depths)]

\* depths.at((depths.size() - 1) / 2): with no depth the unsigned index wraps and at() throws;
\* n is depths.size()
MedianDepth(lms, pose, abs) ==
    LET depths == Sort(Depths(lms, pose, abs, 1))
    IN IF Len(depths) = 0 THEN [r |-> "fatal", v |-> 0, n |-> 0]
       ELSE [r |-> "value", v |-> depths[((Len(depths) - 1) \div 2) + 1], n |-> Len(depths)]

compute_median_depth_begin(t, k, abs) ==
    /\ Begin(t, [NoOp EXCEPT !.op = "compute_median_depth", !.k = k, !.b = abs],
             "compute_median_depth_lock1")
    /\ UNCHANGED <<kfvars, posevars, lockvars, graphvars, lmvars, dbvars, histvars>>

\* mutant: lock1 is taken on mtx_pose_
compute_median_depth_lock1_on_pose(t) ==
    /\ pc[t] = "compute_median_depth_lock1"
    /\ mtx_pose[cur[t].k] = Free
    /\ mtx_pose' = [mtx_pose EXCEPT ![cur[t].k] = t]
    /\ Goto(t, "compute_median_depth_lock2")
    /\ UNCHANGED <<kfvars, posevars, mtx_observations, graphvars, lmvars, dbvars, cur, calls,
                   nops, histvars>>

compute_median_depth_lock1(t) ==
    /\ pc[t] = "compute_median_depth_lock1"
    /\ mtx_observations[cur[t].k] = Free
    /\ mtx_observations' = [mtx_observations EXCEPT ![cur[t].k] = t]
    /\ Goto(t, "compute_median_depth_lock2")
    /\ UNCHANGED <<kfvars, posevars, mtx_pose, graphvars, lmvars, dbvars, cur, calls, nops,
                   histvars>>

compute_median_depth_lock2(t) ==
    /\ pc[t] = "compute_median_depth_lock2"
    /\ mtx_pose[cur[t].k] = Free
    /\ mtx_pose' = [mtx_pose EXCEPT ![cur[t].k] = t]
    /\ Goto(t, "compute_median_depth")
    /\ UNCHANGED <<kfvars, posevars, mtx_observations, graphvars, lmvars, dbvars, cur, calls,
                   nops, histvars>>

\* the copies of landmarks_ and pose_cw_, the release of both locks, and the computation
\* on the copies; i keeps depths.size()
compute_median_depth(t) ==
    /\ pc[t] = "compute_median_depth"
    /\ LET k == cur[t].k
           m == MedianDepth(landmarks[k], pose_cw[k], cur[t].b)
       IN /\ cur' = [cur EXCEPT ![t].p = pose_cw[k], ![t].r = m.r, ![t].v = m.v, ![t].i = m.n]
          /\ mtx_observations' = [mtx_observations EXCEPT ![k] = Free]
          /\ mtx_pose' = [mtx_pose EXCEPT ![k] = Free]
    /\ Goto(t, "return")
    /\ UNCHANGED <<kfvars, posevars, graphvars, lmvars, dbvars, calls, nops, histvars>>

(* ------------------------------ to_json -------------------------------- *)
\* A read of pose_cw_ without mtx_pose_ that overlaps the assignment pose_cw_ = pose_cw of
\* a writer may see the block as it was or as it is being written.
UnlockedPoseCw(k) ==
    {pose_cw[k]} \cup {cur[u].p : u \in {w \in Threads : pc[w] = "set_pose_cw_pose_cw"
                                                          /\ cur[w].k = k}}

\* landmark ids, spanning parent, spanning children and loop edges
to_json_begin(t, k) ==
    /\ Begin(t, [NoOp EXCEPT !.op = "to_json", !.k = k], "to_json_rot_cw")
    /\ UNCHANGED <<kfvars, posevars, lockvars, graphvars, lmvars, dbvars, histvars>>

\* {"rot_cw", convert_rotation_to_json(pose_cw_.block<3, 3>(0, 0))}
to_json_rot_cw(t) ==
    /\ pc[t] = "to_json_rot_cw"
    /\ \E q \in UnlockedPoseCw(cur[t].k) : cur' = [cur EXCEPT ![t].p.rot = q.rot]
    /\ Goto(t, "to_json_trans_cw")
    /\ UNCHANGED <<kfvars, posevars, lockvars, graphvars, lmvars, dbvars, calls, nops, histvars>>

\* {"trans_cw", convert_translation_to_json(pose_cw_.block<3, 1>(0, 3))}
to_json_trans_cw(t) ==
    /\ pc[t] = "to_json_trans_cw"
    /\ \E q \in UnlockedPoseCw(cur[t].k) :
          cur' = [cur EXCEPT ![t].p.trans = q.trans, ![t].r = "value"]
    /\ Goto(t, "return")
    /\ UNCHANGED <<kfvars, posevars, lockvars, graphvars, lmvars, dbvars, calls, nops, histvars>>

(* ------------------------------ initial states ------------------------- *)
\* make_keyframe and the wiring done by the caller: every keyframe but the origin has a
\* spanning parent made before it and is connected to it; weights are symmetric
Trees(K) ==
    {par \in [KF -> KF \cup {NoKF}] :
        /\ \A k \in KF \ K : par[k] = NoKF
        /\ par[origin_keyfrm] = NoKF
        /\ \A k \in K \ {origin_keyfrm} : par[k] \in K /\ par[k] < k}

MaxWeight == 2

Pairs(K) == {e \in K \X K : e[1] < e[2]}

\* symmetric weights: 1 between a keyframe and its spanning parent, 0..MaxWeight elsewhere
Weights(K, par) ==
    {[a \in KF |-> [b \in KF |->
         IF a = b \/ a \notin K \/ b \notin K THEN 0
         ELSE IF par[a] = b \/ par[b] = a THEN 1
         ELSE IF a < b THEN f[<<a, b>>] ELSE f[<<b, a>>]]] : f \in [Pairs(K) -> 0 .. MaxWeight]}

InitCommon ==
    /\ cannot_be_erased = [k \in KF |-> FALSE]
    /\ will_be_erased = [k \in KF |-> FALSE]
    /\ mtx_observations = [k \in KF |-> Free]
    /\ mtx_pose = [k \in KF |-> Free]
    /\ loop_edges = [k \in KF |-> {}]
    /\ erased_with_index = [k \in KF |-> {}]
    /\ map_keyfrms = keyfrms
    /\ bow_keyfrms = keyfrms
    /\ ref_keyfrm \in keyfrms /\ \A k \in keyfrms : k <= ref_keyfrm
    /\ spanning_children = [k \in KF |-> {c \in KF : spanning_parent[c] = k}]
    /\ pc = [t \in Threads |-> "idle"]
    /\ cur = [t \in Threads |-> NoOp]
    /\ calls = [t \in Threads |-> <<>>]
    /\ nops = 0

\* set_pose_cw() run by the constructor
InitPose(p) ==
    /\ pose_cw = [k \in KF |-> p]
    /\ pose_wc = [k \in KF |-> PoseWc(p)]
    /\ trans_wc = [k \in KF |-> TransWc(p)]
    /\ written = [k \in KF |-> {p}]

\* no landmark is being erased
NoLandmarkErased == lm_will_be_erased = [l \in LM |-> FALSE]

\* keyframes made from persisted fields (all slots empty)
EmptySlots ==
    /\ landmarks = [k \in KF |-> [i \in Slots |-> Null]]
    /\ observations = [l \in LM |-> [k \in KF |-> Null]]

\* keyframes made from frames that track landmark l in slot l, after update_landmarks
TrackedSlots ==
    /\ landmarks = [k \in KF |-> [i \in Slots |-> IF k \in keyfrms /\ i \in LM THEN i ELSE Null]]
    /\ observations = [l \in LM |-> [k \in KF |-> IF k \in keyfrms /\ l \in Slots THEN l ELSE Null]]

\* a chain origin <- 1 <- 2 ... with unit weights between parent and child
ChainGraph ==
    /\ spanning_parent = [k \in KF |-> IF k \in keyfrms \ {origin_keyfrm} THEN k - 1 ELSE NoKF]
    /\ connections = [a \in KF |-> [b \in KF |->
                         IF a \in keyfrms /\ b \in keyfrms /\ (a = b + 1 \/ b = a + 1)
                         THEN 1 ELSE 0]]

(* ------------------------------ erasure, slots and gating -------------- *)
Init ==
    /\ keyfrms = KF \ {NumKeyfrms - 1}
    /\ ChainGraph
    /\ InitCommon
    /\ NoLandmarkErased
    /\ InitPose(NoPose)
    /\ EmptySlots \/ TrackedSlots

Next ==
    \E t \in Threads :
        \/ \E k \in keyfrms, l \in LM, idx \in Slots : add_landmark_begin(t, k, l, idx)
        \/ add_landmark(t)
        \/ \E k \in keyfrms, idx \in Slots : erase_landmark_with_index_begin(t, k, idx)
        \/ erase_landmark_with_index(t)
        \/ \E k \in keyfrms, l \in LM : erase_landmark_begin(t, k, l)
        \/ erase_landmark_lock(t)
        \/ erase_landmark(t)
        \/ \E k \in keyfrms, idx \in Slots : get_landmark_begin(t, k, idx)
        \/ get_landmark(t)
        \/ \E k \in keyfrms : update_landmarks_begin(t, k)
        \/ update_landmarks_lock(t)
        \/ update_landmarks_slot(t)
        \/ update_landmarks_unlock(t)
        \/ \E k, j \in keyfrms : add_loop_edge(t, k, j)
        \/ \E k \in keyfrms : set_not_to_be_erased(t, k)
        \/ \E k \in keyfrms : set_to_be_erased_begin(t, k)
        \/ set_to_be_erased(t)
        \/ \E k \in keyfrms : prepare_for_erasing_begin(t, k)
        \/ pfe_raise(t)
        \/ pfe_lock(t)
        \/ pfe_slot(t)
        \/ pfe_unlock(t)
        \/ pfe_erase_all_connections(t)
        \/ pfe_recover_spanning_connections(t)
        \/ pfe_replace_reference_keyframe(t)
        \/ pfe_map_erase_keyframe(t)
        \/ pfe_bow_erase_keyframe(t)
        \/ return(t)

Spec == Init /\ [][Next]_vars

(* ------------------------------ erasure on wired graphs ---------------- *)
InitGraph ==
    /\ keyfrms = KF
    /\ spanning_parent \in Trees(keyfrms)
    /\ connections \in Weights(keyfrms, spanning_parent)
    /\ InitCommon
    /\ NoLandmarkErased
    /\ InitPose(NoPose)
    /\ EmptySlots

NextGraph ==
    \E t \in Threads :
        \/ \E k \in keyfrms : prepare_for_erasing_begin(t, k)
        \/ pfe_raise(t)
        \/ pfe_lock(t)
        \/ pfe_slot(t)
        \/ pfe_unlock(t)
        \/ pfe_erase_all_connections(t)
        \/ pfe_recover_spanning_connections(t)
        \/ pfe_replace_reference_keyframe(t)
        \/ pfe_map_erase_keyframe(t)
        \/ pfe_bow_erase_keyframe(t)
        \/ return(t)

SpecGraph == InitGraph /\ [][NextGraph]_vars

(* ------------- pose, the two locks and the keyframe operations, on two keyframes ------ *)
InitPoseSpec ==
    /\ keyfrms = {origin_keyfrm, 1}
    /\ ChainGraph
    /\ InitCommon
    /\ NoLandmarkErased
    /\ InitPose(NoPose)
    /\ TrackedSlots

NextPose ==
    \E t \in Threads :
        \/ \E k \in keyfrms, p \in Poses : set_pose_cw_begin(t, k, p)
        \/ set_pose_cw_lock(t)
        \/ set_pose_cw_pose_cw(t)
        \/ set_pose_cw_trans_wc(t)
        \/ set_pose_cw_pose_wc(t)
        \/ \E k \in keyfrms, g \in PoseGetters : get_pose_begin(t, k, g)
        \/ get_pose(t)
        \/ \E k \in keyfrms, idx \in Slots : triangulate_stereo_begin(t, k, idx)
        \/ triangulate_stereo(t)
        \/ \E k \in keyfrms, abs \in BOOLEAN : compute_median_depth_begin(t, k, abs)
        \/ compute_median_depth_lock1(t)
        \/ compute_median_depth_lock2(t)
        \/ compute_median_depth(t)
        \/ \E k \in keyfrms : to_json_begin(t, k)
        \/ to_json_rot_cw(t)
        \/ to_json_trans_cw(t)
        \/ \E k \in keyfrms, l \in LM, idx \in Slots : add_landmark_begin(t, k, l, idx)
        \/ add_landmark(t)
        \/ \E k \in keyfrms, idx \in Slots : erase_landmark_with_index_begin(t, k, idx)
        \/ erase_landmark_with_index(t)
        \/ \E k \in keyfrms, l \in LM : erase_landmark_begin(t, k, l)
        \/ erase_landmark_lock(t)
        \/ erase_landmark(t)
        \/ \E k \in keyfrms : update_landmarks_begin(t, k)
        \/ update_landmarks_lock(t)
        \/ update_landmarks_slot(t)
        \/ update_landmarks_unlock(t)
        \/ \E k \in keyfrms : set_not_to_be_erased(t, k)
        \/ \E k \in keyfrms : set_to_be_erased_begin(t, k)
        \/ set_to_be_erased(t)
        \/ \E k \in keyfrms : prepare_for_erasing_begin(t, k)
        \/ pfe_raise(t)
        \/ pfe_lock(t)
        \/ pfe_slot(t)
        \/ pfe_unlock(t)
        \/ pfe_erase_all_connections(t)
        \/ pfe_recover_spanning_connections(t)
        \/ pfe_replace_reference_keyframe(t)
        \/ pfe_map_erase_keyframe(t)
        \/ pfe_bow_erase_keyframe(t)
        \/ return(t)

SpecPose == InitPoseSpec /\ [][NextPose]_vars

(* ------------- the landmark slots of two keyframes, with landmarks being erased ------- *)
\* a landmark whose own erasure has begun keeps its will_be_erased flag raised while the
\* keyframes still hold it in their slots
InitSlots ==
    /\ keyfrms = {origin_keyfrm, 1}
    /\ ChainGraph
    /\ InitCommon
    /\ lm_will_be_erased \in [LM -> BOOLEAN]
    /\ InitPose(NoPose)
    /\ EmptySlots \/ TrackedSlots

NextSlots ==
    \E t \in Threads :
        \/ \E k \in keyfrms, l \in LM, idx \in Slots : add_landmark_begin(t, k, l, idx)
        \/ add_landmark(t)
        \/ \E k \in keyfrms, idx \in Slots : erase_landmark_with_index_begin(t, k, idx)
        \/ erase_landmark_with_index(t)
        \/ \E k \in keyfrms, l \in LM : erase_landmark_begin(t, k, l)
        \/ erase_landmark_lock(t)
        \/ erase_landmark(t)
        \/ \E k \in keyfrms, idx \in Slots : get_landmark_begin(t, k, idx)
        \/ get_landmark(t)
        \/ \E k \in keyfrms : update_landmarks_begin(t, k)
        \/ update_landmarks_lock(t)
        \/ update_landmarks_slot(t)
        \/ update_landmarks_unlock(t)
        \/ return(t)

SpecSlots == InitSlots /\ [][NextSlots]_vars

(* ------------- compute_median_depth on one keyframe with DepthKeypts slots ------------ *)
DepthLM == 1 .. DepthLandmarks

\* one keyframe with any slot contents and any pose, landmarks of which any may be
\* being erased; one call is examined in a behaviour
InitDepth ==
    /\ keyfrms = {origin_keyfrm}
    /\ ChainGraph
    /\ \E slots \in [1 .. DepthKeypts -> DepthLM \cup {Null}] :
          landmarks = [k \in KF |-> IF k \in keyfrms THEN slots ELSE [i \in Slots |-> Null]]
    /\ observations = [l \in DepthLM |-> [k \in KF |-> Null]]
    /\ lm_will_be_erased \in [DepthLM -> BOOLEAN]
    /\ \E p \in Poses : InitPose(p)
    /\ cannot_be_erased = [k \in KF |-> FALSE]
    /\ will_be_erased = [k \in KF |-> FALSE]
    /\ mtx_observations = [k \in KF |-> Free]
    /\ mtx_pose = [k \in KF |-> Free]
    /\ loop_edges = [k \in KF |-> {}]
    /\ erased_with_index = [k \in KF |-> {}]
    /\ map_keyfrms = keyfrms
    /\ bow_keyfrms = keyfrms
    /\ ref_keyfrm = origin_keyfrm
    /\ spanning_children = [k \in KF |-> {}]
    /\ pc = [t \in Threads |-> "idle"]
    /\ cur = [t \in Threads |-> NoOp]
    /\ calls = [t \in Threads |-> <<>>]
    /\ nops = MaxOps - 1

NextDepth ==
    \E t \in Threads :
        \/ \E k \in keyfrms, abs \in BOOLEAN : compute_median_depth_begin(t, k, abs)
        \/ compute_median_depth_lock1(t)
        \/ compute_median_depth_lock2(t)
        \/ compute_median_depth(t)
        \/ return(t)

SpecDepth == InitDepth /\ [][NextDepth]_vars

(* ====================================================================== *)
(* Properties                                                              *)
(* ====================================================================== *)
PfeRun(t) == cur[t].op = "prepare_for_erasing"

\* thread t starts prepare_for_erasing in this step
PfeInvoked(t) == pc[t] = "idle" /\ pc'[t] # "idle" /\ cur'[t].op = "prepare_for_erasing"

\* C1: prepare_for_erasing invoked on the origin keyframe, or on a keyframe whose
\* cannot_be_erased_ is true at the invocation, returns at once and is a no-op:
\* will_be_erased_, the landmarks' observations, the graph node, the map database and the
\* BoW database are unchanged and no collaborator is called.
C1_NoOpOnOriginOrPinned ==
    [][\A t \in Threads :
          (PfeInvoked(t) /\ (cur'[t].k = origin_keyfrm \/ cannot_be_erased[cur'[t].k]))
          => /\ pc'[t] = "return"
             /\ cur'[t].r = "returned"
             /\ calls'[t] = <<>>
             /\ UNCHANGED <<kfvars, graphvars, lmvars, dbvars>>]_vars

C1_Witness ==
    \E t \in Threads :
        /\ pc[t] = "return" /\ PfeRun(t) /\ cur[t].r = "returned"
        /\ cur[t].k # origin_keyfrm
        /\ cannot_be_erased[cur[t].k]
        /\ landmarks[cur[t].k][1] # Null

\* C2: will_be_erased_ is false after construction, and no step of any operation turns a
\* true will_be_erased_ back to false.
C2_WillBeErasedMonotonic ==
    /\ \A k \in KF : ~will_be_erased[k]
    /\ [][\A k \in KF : will_be_erased[k] => will_be_erased'[k]]_vars

\* an erased keyframe on which a further operation has run to its end
C2_Witness ==
    \E t \in Threads :
        /\ pc[t] = "return"
        /\ cur[t].op = "set_to_be_erased" /\ cur[t].r = "cleared"
        /\ will_be_erased[cur[t].k]

\* the steps of the protocol, by the calls they make
Rank(c) ==
    CASE c.f \in {"erase_observation", "compute_descriptor",
                  "update_mean_normal_and_obs_scale_variance"} -> 2
      [] c.f = "erase_all_connections" -> 3
      [] c.f = "recover_spanning_connections" -> 4
      [] c.f = "replace_reference_keyframe" -> 5
      [] c.f = "map_erase_keyframe" -> 6
      [] c.f = "bow_erase_keyframe" -> 7
      [] OTHER -> 0

Ranks(log) == {Rank(log[n]) : n \in 1 .. Len(log)}

\* the steps after step 2 that are complete when the thread is at a position
DoneAt(lbl) ==
    CASE lbl \in {"pfe_raise", "pfe_lock", "pfe_loop", "pfe_erase_all_connections"} -> {}
      [] lbl = "pfe_recover_spanning_connections" -> {3}
      [] lbl = "pfe_replace_reference_keyframe" -> {3, 4}
      [] lbl = "pfe_map_erase_keyframe" -> {3, 4, 5}
      [] lbl = "pfe_bow_erase_keyframe" -> {3, 4, 5, 6}
      [] OTHER -> {3, 4, 5, 6, 7}

\* C3: a prepare_for_erasing that proceeds performs its steps in the fixed order
\* (1) flag, (2) landmark detachment of every non-empty non-erasing slot, (3) erase all
\* connections then recover the spanning connections, (4) replace the reference keyframe
\* then remove from the map database, (5) remove from the BoW database; each step is
\* complete before the next begins.
C3_StepOrder ==
    \A t \in Threads :
        (PfeRun(t) /\ cur[t].r \in {"erasing", "erased"}) =>
            LET k == cur[t].k
                log == calls[t]
            IN /\ (pc[t] # "pfe_raise") => will_be_erased[k]
               /\ (pc[t] \in {"pfe_raise", "pfe_lock"}) => log = <<>>
               /\ \A m, n \in 1 .. Len(log) :
                     m < n => /\ Rank(log[m]) <= Rank(log[n])
                              /\ Rank(log[n]) > 2 => Rank(log[m]) < Rank(log[n])
               /\ Ranks(log) \ {2} = DoneAt(pc[t])
               /\ (pc[t] = "pfe_loop") <=> (mtx_observations[k] = t)
               /\ (pc[t] \notin {"pfe_raise", "pfe_lock", "pfe_loop"}) => cur[t].i = NumKeypts + 1
               /\ (pc[t] = "pfe_loop" /\ cur[t].i > NumKeypts) =>
                     \A idx \in Slots :
                        LET lm == landmarks[k][idx]
                        IN (lm # Null /\ ~lm_will_be_erased[lm]) =>
                              /\ observations[lm][k] = Null
                              /\ \E n \in 1 .. Len(log) :
                                    log[n].f = "erase_observation" /\ log[n].a = lm
               /\ (pc[t] = "return") => cur[t].r = "erased"

C3_Witness ==
    \E t \in Threads :
        /\ pc[t] = "return" /\ PfeRun(t) /\ cur[t].r = "erased"
        /\ \E n \in 1 .. Len(calls[t]) : calls[t][n].f = "compute_descriptor"

\* C4: when prepare_for_erasing has run to its end on keyframe K, will_be_erased_ of K is
\* true and no landmark that is not being erased has K in its observer set.
C4_NoObserverLeft ==
    [][\A t \in Threads :
          (pc[t] = "pfe_bow_erase_keyframe" /\ pc'[t] = "return") =>
              /\ will_be_erased'[cur[t].k]
              /\ \A l \in LM : ~lm_will_be_erased'[l] => observations'[l][cur[t].k] = Null]_vars

\* C5: when prepare_for_erasing has run to its end on keyframe K, every former spanning
\* child of K has a parent that is neither null nor K, parent links lead every live
\* keyframe to the origin without a cycle, and the keyframe handed to
\* replace_reference_keyframe is K's spanning parent as it stands after the repair.
Live(k) == k \in keyfrms /\ ~will_be_erased[k]

C5_SpanningTreeRepaired ==
    \A t \in Threads :
        (pc[t] = "return" /\ PfeRun(t) /\ cur[t].r = "erased") =>
            LET k == cur[t].k
            IN /\ \A c \in cur[t].s : spanning_parent[c] \notin {NoKF, k}
               /\ \A n \in KF : Live(n) => PathToRoot(spanning_parent, n, NoKF, NumKeyfrms)
               /\ \A n \in 1 .. Len(calls[t]) :
                     calls[t][n].f = "replace_reference_keyframe"
                     => calls[t][n].a = spanning_parent[k]

\* a child of the erased keyframe was given a parent other than the origin
C5_Witness ==
    \E t \in Threads :
        /\ pc[t] = "return" /\ PfeRun(t) /\ cur[t].r = "erased"
        /\ \E c \in cur[t].s : spanning_parent[c] # origin_keyfrm /\ Live(c)
        /\ \E c \in cur[t].s : spanning_children[c] # {}

\* C6: prepare_for_erasing invoked on a keyframe whose will_be_erased_ is already true
\* (with no other prepare_for_erasing in progress) changes no state and calls no
\* collaborator.
C6_Idempotent ==
    \A t \in Threads :
        (PfeRun(t) /\ cur[t].b /\ \A u \in Threads \ {t} : ~PfeRun(u)) => calls[t] = <<>>

\* C7: cannot_be_erased_ of a keyframe that holds a loop edge stays true through every
\* set_to_be_erased; the flag goes from true to false only in a set_to_be_erased whose
\* has_loop_edge() found no loop edge.
Unpinning(t, k) == pc[t] = "set_to_be_erased" /\ cur[t].k = k /\ ~cur[t].b

C7_LoopEdgePinStays ==
    [][\A k \in KF :
          /\ (cannot_be_erased[k] /\ ~cannot_be_erased'[k]) =>
                \E t \in Threads : Unpinning(t, k) /\ pc'[t] = "return"
          /\ \A t \in Threads :
                (pc[t] = "idle" /\ pc'[t] = "set_to_be_erased" /\ cur'[t].k = k)
                => (cur'[t].b <=> loop_edges[k] # {})
          /\ \A t \in Threads :
                (pc[t] = "set_to_be_erased" /\ pc'[t] = "return" /\ cur[t].k = k /\ cur[t].b)
                => cannot_be_erased'[k] = cannot_be_erased[k]]_vars

C7_Witness ==
    \E t \in Threads :
        /\ pc[t] = "return" /\ cur[t].op = "set_to_be_erased" /\ cur[t].r = "kept"
        /\ loop_edges[cur[t].k] # {}
        /\ cannot_be_erased[cur[t].k]

\* C8: prepare_for_erasing invoked on a keyframe whose graph node holds a loop edge
\* returns at once: it does not raise will_be_erased_ and runs no erasure step.
C8_LoopEdgeNeverErased ==
    [][\A t \in Threads :
          (PfeInvoked(t) /\ loop_edges[cur'[t].k] # {}) => cur'[t].r = "returned"]_vars

\* C9: whenever mtx_pose_ is free the three pose fields agree, and what a reader of the
\* pose returns is the pose of one set_pose_cw call, never parts of two.
PoseCwReaders == {"get_pose_cw", "compute_median_depth", "to_json"}
PoseWcReaders == {"get_pose_wc", "triangulate_stereo"}

C9_PoseAtomicity ==
    /\ \A k \in KF : mtx_pose[k] = Free =>
          /\ pose_wc[k] = PoseWc(pose_cw[k])
          /\ trans_wc[k] = TransWc(pose_cw[k])
    /\ \A t \in Threads : (pc[t] = "return" /\ cur[t].r # "fatal") =>
          LET k == cur[t].k
          IN /\ cur[t].op \in PoseCwReaders => cur[t].p \in written[k]
             /\ cur[t].op \in PoseWcReaders => cur[t].p \in {PoseWc(q) : q \in written[k]}
             /\ cur[t].op = "get_trans_wc" => cur[t].v \in {TransWc(q) : q \in written[k]}
             /\ cur[t].op = "get_rot_cw" => cur[t].v \in {q.rot : q \in written[k]}
             /\ cur[t].op = "get_trans_cw" => cur[t].v \in {q.trans : q \in written[k]}

\* C10: no thread asks for mtx_observations_ while it holds mtx_pose_, a thread that
\* holds both took mtx_observations_ first, and the running threads are never all
\* blocked on the two locks.
ObsWaiting == {"add_landmark", "erase_landmark_with_index", "erase_landmark_lock",
               "get_landmark", "update_landmarks_lock", "pfe_lock",
               "compute_median_depth_lock1"}
PoseWaiting == {"set_pose_cw_lock", "get_pose", "triangulate_stereo",
                "compute_median_depth_lock2"}

Blocked(t) ==
    \/ pc[t] \in ObsWaiting /\ mtx_observations[cur[t].k] # Free
    \/ pc[t] \in PoseWaiting /\ mtx_pose[cur[t].k] # Free

C10_LockOrderNoDeadlock ==
    /\ \A t \in Threads, k \in KF :
          /\ (pc[t] \in ObsWaiting) => mtx_pose[k] # t
          /\ (mtx_observations[k] = t /\ mtx_pose[k] = t) => pc[t] = "compute_median_depth"
          /\ (pc[t] = "idle") => (mtx_observations[k] # t /\ mtx_pose[k] # t)
    /\ (\E t \in Threads : pc[t] # "idle") => (\E t \in Threads : pc[t] # "idle" /\ ~Blocked(t))

\* one thread holds both locks while another waits for one of them
C10_Witness ==
    \E t, u \in Threads :
        /\ pc[t] = "compute_median_depth"
        /\ mtx_observations[cur[t].k] = t /\ mtx_pose[cur[t].k] = t
        /\ Blocked(u) /\ cur[u].k = cur[t].k

\* C11: during one prepare_for_erasing run no collaborator is touched twice: no landmark
\* receives more than one erase_observation call (also when it occupies several slots of
\* the keyframe), the map database and the BoW database each receive at most one removal,
\* and the erasing thread never asks for a lock of the keyframe that it already holds.
CallsTo(log, f) == {n \in 1 .. Len(log) : log[n].f = f}

C11_CollaboratorsTouchedOnce ==
    \A t \in Threads :
        PfeRun(t) =>
            /\ \A m, n \in CallsTo(calls[t], "erase_observation") :
                  calls[t][m].a = calls[t][n].a => m = n
            /\ Cardinality(CallsTo(calls[t], "map_erase_keyframe")) <= 1
            /\ Cardinality(CallsTo(calls[t], "bow_erase_keyframe")) <= 1
            /\ (pc[t] = "pfe_lock") => mtx_observations[cur[t].k] # t

\* C12: a thread never holds mtx_observations_ or mtx_pose_ of a keyframe while it is
\* inside a call to another object (a landmark, the graph node, the map database or the
\* BoW database).
HoldsLock(t) == \E k \in KF : mtx_observations[k] = t \/ mtx_pose[k] = t

C12_LocksHeldForLocalWorkOnly ==
    [][\A t \in Threads :
          (Len(calls'[t]) > Len(calls[t])) => ~HoldsLock(t)]_vars

\* C13: every keyframe has, in every reachable state, as many landmark slots as it had
\* keypoints when it was constructed.
C13_SlotCountFixed == \A k \in KF : DOMAIN landmarks[k] = Slots

\* a keyframe on which add_landmark, erase_landmark_with_index and prepare_for_erasing
\* have all run
C13_Witness ==
    \E k \in keyfrms :
        /\ will_be_erased[k]
        /\ erased_with_index[k] # {}
        /\ \E i \in Slots : landmarks[k][i] # Null /\ observations[landmarks[k][i]][k] # i
        /\ \A t \in Threads : pc[t] = "idle"

\* C14: a get_landmark(i) that follows an erase_landmark_with_index(i), with no
\* add_landmark on slot i in between, returns the empty slot, whatever the slot held
\* before; erase_landmark_with_index(i) leaves every other slot as it was.
C14_EraseThenGetIsEmpty ==
    /\ [](\A t \in Threads :
            (pc[t] = "return" /\ cur[t].op = "get_landmark" /\ cur[t].b) => cur[t].lm = Null)
    /\ [][\A t \in Threads :
            (pc[t] = "erase_landmark_with_index" /\ pc'[t] = "idle") =>
                \A k \in KF, j \in Slots :
                    (k # cur[t].k \/ j # cur[t].i) => landmarks'[k][j] = landmarks[k][j]]_vars

\* the slot held a landmark (which still records it), erase_landmark_with_index cleared
\* it and the get_landmark that followed returned nullptr
C14_Witness ==
    \E t \in Threads :
        /\ pc[t] = "return" /\ cur[t].op = "get_landmark" /\ cur[t].b
        /\ cur[t].lm = Null
        /\ nops = 2
        /\ \E l \in LM : observations[l][cur[t].k] = cur[t].i
        /\ \E j \in Slots : landmarks[cur[t].k][j] # Null

\* the depth of the landmark in slot i of keyframe k as thread t computes it
DepthOfSlot(t, i) ==
    LET pos_c_z == cur[t].p.rot * LmPosInWorld(landmarks[cur[t].k][i]) + cur[t].p.trans
    IN IF cur[t].b /\ pos_c_z < 0 THEN 0 - pos_c_z ELSE pos_c_z

MedianDepthReturned(t) == pc[t] = "return" /\ cur[t].op = "compute_median_depth"

\* C15: compute_median_depth returns the lower median of the contributing depths: with
\* n >= 1 depths the returned value is one of them, at most (n - 1) / 2 depths are below
\* it and more than (n - 1) / 2 are not above it, whatever the order of the slots (depths
\* 1, 2, 3, 4 in any slot order give 2); with no contributing landmark the call fails.
C15_LowerMedian ==
    \A t \in Threads :
        MedianDepthReturned(t) =>
            LET lms == landmarks[cur[t].k]
                I == {i \in DOMAIN lms : lms[i] # Null}
                n == Cardinality(I)
                h == (n - 1) \div 2
                v == cur[t].v
            IN IF n = 0 THEN cur[t].r = "fatal"
               ELSE /\ cur[t].r = "value"
                    /\ \E i \in I : DepthOfSlot(t, i) = v
                    /\ Cardinality({i \in I : DepthOfSlot(t, i) < v}) <= h
                    /\ Cardinality({i \in I : DepthOfSlot(t, i) <= v}) > h
                    /\ ({DepthOfSlot(t, i) : i \in I} = 1 .. 4 /\ n = 4) => v = 2

\* depths 1, 2, 3, 4 held in the slot order 4, ., ., . give 2
C15_Witness ==
    \E t \in Threads :
        /\ MedianDepthReturned(t) /\ cur[t].r = "value" /\ cur[t].v = 2
        /\ cur[t].p = NoPose
        /\ {landmarks[cur[t].k][i] : i \in DOMAIN landmarks[cur[t].k]} = 1 .. 4
        /\ landmarks[cur[t].k][1] = 4
        /\ landmarks[cur[t].k][2] = 1

\* C16: the depths compute_median_depth sorts come from the valid landmarks only: a slot
\* that is empty, or whose landmark is being erased, contributes no depth.
C16_ValidLandmarksOnly ==
    \A t \in Threads :
        MedianDepthReturned(t) =>
            LET lms == landmarks[cur[t].k]
            IN cur[t].i = Cardinality({i \in DOMAIN lms :
                                          lms[i] # Null /\ ~lm_will_be_erased[lms[i]]})

\* the calls thread t makes in this step, by name
NewCalls(t) ==
    [n \in 1 .. (Len(calls'[t]) - Len(calls[t])) |-> calls'[t][Len(calls[t]) + n].f]

SlotMutationLabels == {"add_landmark", "erase_landmark_with_index", "erase_landmark"}

\* update_landmarks visits the slots 1, 2, ... in turn; a slot holding a landmark that is
\* not being erased makes the calls `order` on that landmark, the first of which records
\* (keyframe, slot); an empty slot or one holding a landmark being erased makes no call;
\* the slots are left as they are, and the slot mutations call no landmark
UpdateLandmarksContract(order) ==
    \A t \in Threads :
        /\ (pc[t] = "update_landmarks_lock" /\ pc'[t] = "update_landmarks_loop") => cur'[t].i = 1
        /\ (pc[t] = "update_landmarks_loop" /\ pc'[t] = "idle") => cur[t].i = NumKeypts + 1
        /\ (pc[t] = "update_landmarks_loop" /\ pc'[t] = "update_landmarks_loop"
                                            /\ cur'[t] # cur[t]) =>
              LET k == cur[t].k
                  i == cur[t].i
                  lm == landmarks[k][i]
              IN /\ cur'[t].i = i + 1
                 /\ landmarks' = landmarks
                 /\ IF lm = Null \/ lm_will_be_erased[lm]
                    THEN calls'[t] = calls[t] /\ observations' = observations
                    ELSE /\ NewCalls(t) = order
                         /\ \A n \in (Len(calls[t]) + 1) .. Len(calls'[t]) :
                               calls'[t][n].a = lm /\ calls'[t][n].s = i
                         /\ observations' = [observations EXCEPT ![lm][k] = i]
        /\ (pc[t] \in SlotMutationLabels /\ pc'[t] # pc[t]) =>
              calls' = calls /\ observations' = observations

\* C17 (as stated): update_landmarks tells the landmark of every non-empty, non-erasing
\* slot to record (keyframe, slot), then to recompute its descriptor, then its
\* viewing-direction/scale statistics; other slots cause no call; the slots are unchanged;
\* slot mutation alone makes none of these calls.
C17_DescriptorThenStatistics ==
    [][UpdateLandmarksContract(<<"add_observation", "compute_descriptor",
                                 "update_mean_normal_and_obs_scale_variance">>)]_vars

\* C17 (amended): as above, with the statistics recomputed before the descriptor.
C17_StatisticsThenDescriptor ==
    [][UpdateLandmarksContract(<<"add_observation", "update_mean_normal_and_obs_scale_variance",
                                 "compute_descriptor">>)]_vars

\* update_landmarks has visited every slot: one held a landmark that was called, the other
\* a landmark being erased that was not
C17_Witness ==
    \E t \in Threads :
        /\ pc[t] = "update_landmarks_loop" /\ cur[t].i = NumKeypts + 1
        /\ Len(calls[t]) = 3
        /\ \E i \in Slots : LET lm == landmarks[cur[t].k][i] IN lm # Null /\ lm_will_be_erased[lm]
        /\ \E i \in Slots : LET lm == landmarks[cur[t].k][i]
                            IN lm # Null /\ ~lm_will_be_erased[lm] /\ calls[t][1].a = lm

\* the step in which thread t, at position lbl, takes mtx_observations_ and writes
SlotWrite(t, lbl) == pc[t] = lbl /\ pc'[t] # lbl

\* C18: add_landmark(lm, i) and erase_landmark_with_index(i) write slot i whatever it
\* holds and change no other slot, so that after any interleaving the slot holds the value
\* of the call that took mtx_observations_ last; the previous occupant is not called and
\* its observations are not changed.
C18_LastWriterWins ==
    [][\A t \in Threads :
          /\ SlotWrite(t, "add_landmark") =>
                /\ landmarks' = [landmarks EXCEPT ![cur[t].k][cur[t].i] = cur[t].lm]
                /\ UNCHANGED <<lmvars, calls>>
          /\ SlotWrite(t, "erase_landmark_with_index") =>
                /\ landmarks' = [landmarks EXCEPT ![cur[t].k][cur[t].i] = Null]
                /\ UNCHANGED <<lmvars, calls>>]_vars

\* add_landmark has written over a landmark that still records the slot, while an
\* erase_landmark_with_index on the same slot waits for mtx_observations_
C18_Witness ==
    \E t \in Threads, l \in LM :
        /\ pc[t] = "erase_landmark_with_index"
        /\ nops = 2
        /\ observations[l][cur[t].k] = cur[t].i
        /\ landmarks[cur[t].k][cur[t].i] \notin {Null, l}

\* C19: erase_landmark(lm) clears the slot that lm reports for the keyframe, whether or
\* not the slot holds lm, and no other slot; when lm reports no slot (a negative index)
\* every slot is left as it is.
C19_EraseLandmarkByReportedIndex ==
    [][\A t \in Threads :
          SlotWrite(t, "erase_landmark") =>
              LET k == cur[t].k
                  idx == observations[cur[t].lm][k]
              IN /\ landmarks' = [a \in KF |-> [j \in DOMAIN landmarks[a] |->
                                     IF a = k /\ j = idx THEN Null ELSE landmarks[a][j]]]
                 /\ (idx = Null) => landmarks' = landmarks
                 /\ UNCHANGED lmvars]_vars

\* erase_landmark(lm) has cleared a slot that held another landmark
C19_Witness ==
    \E t \in Threads :
        /\ pc[t] = "return" /\ cur[t].op = "erase_landmark" /\ cur[t].r = "cleared"
        /\ cur[t].v \notin {Null, cur[t].lm}
        /\ landmarks[cur[t].k][cur[t].i] = Null

\* C20: the pin check of prepare_for_erasing and the erasure are atomic with respect to
\* set_not_to_be_erased: cannot_be_erased_ is never true of a keyframe while a
\* prepare_for_erasing that found it false is detaching its landmarks or repairing the
\* graph.
DetachingOrRepairing == {"pfe_lock", "pfe_loop", "pfe_erase_all_connections",
                         "pfe_recover_spanning_connections"}

C20_PinAtomicWithErasure ==
    \A t \in Threads :
        (PfeRun(t) /\ pc[t] \in DetachingOrRepairing) => ~cannot_be_erased[cur[t].k]

====
